---- MODULE Spec2Model ----
(***************************************************************************)
(* KubeLatentWorker (master/buildbot/worker/kubernetes.py): the latent     *)
(* worker whose backing workload is a Kubernetes pod.  start_instance and  *)
(* stop_instance are Twisted inlineCallbacks coroutines: the code between  *)
(* two yields runs atomically, and every yield on a KubeClientService call *)
(* is a suspension point.  An action below is one such atomic segment: it  *)
(* consumes the answer of the call in flight and runs the handler up to    *)
(* the next call it issues (or to its return / raise).                     *)
(*                                                                         *)
(* The cluster client (buildbot.util.kubeclientservice), the base classes  *)
(* (DockerBaseWorker, CompatibleLatentWorkerMixin) and the scheduler-side  *)
(* controller state are not part of the sources at hand; they are modelled *)
(* from the specification's interface description.                         *)
(***************************************************************************)
EXTENDS Integers, Sequences, FiniteSets, TLC

VARIABLES
    pc,                \* pc[w][f]: the cluster call frame f of worker w awaits ("idle": no call running)
    args,              \* args[w][f]: fast / reportFailure of the stop_instance running in frame f
    build,             \* build[w]: the build start_instance was called with
    result,            \* result[w][f]: how the last call in frame f ended (pending while it runs)
    pods,              \* pods[w]: workloads present in the cluster under w's namespace/name
    deleting,          \* deleting[w]: how many of them the cluster has accepted a delete for
    current_pod_spec,  \* self.current_pod_spec
    props,             \* the rendered worker properties kept between start and stop
    state,             \* ControllerState of the specification, per worker
    log,               \* log[w][f]: what the call running (or last run) in frame f has issued and received
    prev,              \* prev[w]: the call of w that completed last
    calls,             \* number of scheduler calls begun so far
    created,           \* created[w]: namespace and name of the pod w's last accepted createPod made
    cut,               \* cut[w]: a fast stop_instance met w's createPod in flight ("during"),
                       \*         that createPod was then accepted ("created"), and the next
                       \*         stop_instance has begun ("after")
    podIn,             \* what one getPodSpec call is given: name, rendered image, environment,
                       \*         results of the customization points
    podOut             \* what that call returned (None before it)

vars == <<pc, args, build, result, pods, deleting, current_pod_spec, props,
          state, log, prev, calls, created, cut, podIn, podOut>>

(***************************************************************************)
(* Bounds of the model.                                                    *)
(***************************************************************************)
MaxCalls == 3
MaxPods == 2
MaxEnv == 2
MaxSidecars == 2

Workers == {"w1", "w2"}
\* "start": a start_instance call (its nested stop_instance runs in the same
\* frame); "stop": a stop_instance call made by the scheduler.
Frames == {"start", "stop"}
Builds == {"build", "unrenderable"}

(***************************************************************************)
(* Exceptions and results.                                                 *)
(***************************************************************************)
NoExc == [type |-> "None", reason |-> "", msg |-> ""]

Message(reason) ==
    CASE reason = "NotFound" -> "pods not found"
      [] reason = "Forbidden" -> "pods is forbidden"
      [] OTHER -> "pods already exists"

KubeJsonError(reason) ==
    [type |-> "KubeJsonError", reason |-> reason, msg |-> Message(reason)]

TimeoutError == [type |-> "TimeoutError", reason |-> "", msg |-> "pod did not terminate"]

RenderError == [type |-> "RenderError", reason |-> "", msg |-> "missing property"]

LatentWorkerFailedToSubstantiate(m) ==
    [type |-> "LatentWorkerFailedToSubstantiate", reason |-> "", msg |-> m]

\* str(e)
Str(e) == e.msg

\* isinstance(e, kubeclientservice.KubeError): KubeJsonError derives from it.
IsKubeError(e) == e.type \in {"KubeError", "KubeJsonError"}

IsKubeJsonError(e) == e.type = "KubeJsonError"

Pending == [status |-> "pending", exc |-> NoExc]
Returned == [status |-> "returned", exc |-> NoExc]
Raised(e) == [status |-> "raised", exc |-> e]
NoResult == [status |-> "none", exc |-> NoExc]

(***************************************************************************)
(* Configuration.                                                          *)
(***************************************************************************)
\* getContainerName(): the stable name derived from the worker's identity.
getContainerName(w) == "buildbot-" \o w

KubeNamespace == "default"

ConfigNamespace(w) == IF w = "w1" THEN "ci" ELSE ""

\* self.namespace = namespace or self._kube.namespace
Namespace(w) == IF ConfigNamespace(w) # "" THEN ConfigNamespace(w) ELSE KubeNamespace

\* self.missing_timeout, in seconds
missing_timeout(w) == IF w = "w1" THEN 1200 ELSE 60

NoCall == [op |-> "none", namespace |-> "", name |-> "", timeout |-> 0]

\* Variant: namespace and name are kept on the class, shared by every worker.
deletePodCallShared(w) ==
    [op |-> "deletePod", namespace |-> Namespace("w1"),
     name |-> getContainerName("w1"), timeout |-> 0]

deletePodCall(w) ==
    [op |-> "deletePod", namespace |-> Namespace(w), name |-> getContainerName(w),
     timeout |-> 0]

waitForPodDeletionCall(w) ==
    [op |-> "waitForPodDeletion", namespace |-> Namespace(w),
     name |-> getContainerName(w), timeout |-> missing_timeout(w)]

(***************************************************************************)
(* getPodSpec and its customization points.                                *)
(***************************************************************************)
EmptyDict == <<>>
EmptyList == <<>>

getBuildContainerResources(b) == EmptyDict
get_build_container_volume_mounts(b) == EmptyList
get_affinity(b) == EmptyDict
get_node_selector(b) == EmptyDict
get_volumes(b) == EmptyList
getServicesContainers(b) == EmptyList

\* self.image, rendered by the build
RenderedImage(w, b) == "buildbot/buildbot-worker"

\* createEnvironment(build): the worker's environment, in insertion order
createEnvironment(w, b) ==
    << <<"BUILDMASTER", "master">>, <<"WORKERNAME", w>>, <<"WORKERPASS", "pass">> >>

\* Variant: the entries carry key and value the wrong way round.
EnvEntriesSwapped(env) ==
    [i \in 1..Len(env) |-> [name |-> env[i][2], value |-> env[i][1]]]

\* [{"name": k, "value": v} for k, v in env.items()]
EnvEntries(env) == [i \in 1..Len(env) |-> [name |-> env[i][1], value |-> env[i][2]]]

\* What the customization points return for a build, as KubeLatentWorker
\* defines them (a subclass may return anything else).
DefaultExtensions(b) ==
    [resources |-> getBuildContainerResources(b),
     volumeMounts |-> get_build_container_volume_mounts(b),
     affinity |-> get_affinity(b),
     nodeSelector |-> get_node_selector(b),
     services |-> getServicesContainers(b),
     volumes |-> get_volumes(b)]

\* The dictionary getPodSpec returns, from the container name, the rendered
\* image, the environment and the customization points' results.
PodSpec(name, image, env, x) ==
    [apiVersion |-> "v1",
     kind |-> "Pod",
     metadata |-> [name |-> name],
     spec |-> [affinity |-> x.affinity,
               containers |->
                   << [name |-> name,
                       image |-> image,
                       env |-> EnvEntries(env),
                       resources |-> x.resources,
                       volumeMounts |-> x.volumeMounts] >>
                   \o x.services,
               nodeSelector |-> x.nodeSelector,
               restartPolicy |-> "Never",
               volumes |-> x.volumes]]

\* Variant: the pod is named after its image.
getPodSpecNamedByImage(w, b) ==
    PodSpec(RenderedImage(w, b), RenderedImage(w, b), createEnvironment(w, b),
            DefaultExtensions(b))

getPodSpec(w, b) ==
    PodSpec(getContainerName(w), RenderedImage(w, b), createEnvironment(w, b),
            DefaultExtensions(b))

renderWorkerProps(w, b) == getPodSpec(w, b)

\* build.render fails on a build whose properties do not resolve the templates.
Renderable(b) == b # "unrenderable"

\* None, or the one value held
None == <<>>
Some(v) == <<v>>

createPodCall(w, pod_spec) ==
    [op |-> "createPod", namespace |-> Namespace(w),
     name |-> pod_spec.metadata.name, timeout |-> 0]

(***************************************************************************)
(* The cluster client's answers (KubeClientService), from its interface:   *)
(*   createPod  -> ack | KubeJsonError{reason}                             *)
(*   deletePod  -> ack | KubeJsonError{reason: "NotFound" | other}         *)
(*   waitForPodDeletion -> confirmed | TimeoutError                        *)
(***************************************************************************)
Unanswered == [type |-> "unanswered", reason |-> "", msg |-> ""]
Ack == [type |-> "ack", reason |-> "", msg |-> ""]

\* The exception an answer raises in the caller (NoExc: the call returned).
ExcOf(out) == IF out = Ack THEN NoExc ELSE out

\* The cluster keeps its pods by namespace and name.  pods[v] counts those
\* under worker v's namespace and container name; a call addresses the
\* workers whose namespace and name it carries.
PodKey(w) == <<Namespace(w), getContainerName(w)>>
CallKey(c) == <<c.namespace, c.name>>
Targets(c) == {v \in Workers : PodKey(v) = CallKey(c)}
PodsAt(c) == IF Targets(c) = {} THEN 0 ELSE pods[CHOOSE v \in Targets(c) : TRUE]

DeleteOutcomes(c) ==
    IF PodsAt(c) = 0
    THEN {KubeJsonError("NotFound"), KubeJsonError("Forbidden")}
    ELSE {Ack, KubeJsonError("Forbidden")}

\* A timeout is the pod still being there when the bound expires.
WaitOutcomes(c) == IF PodsAt(c) = 0 THEN {Ack} ELSE {TimeoutError}

CreateOutcomes(c) ==
    {KubeJsonError("Forbidden"), KubeJsonError("AlreadyExists")}
    \cup (IF PodsAt(c) < MaxPods THEN {Ack} ELSE {})

(***************************************************************************)
(* ControllerState transitions, as the specification's state machine gives *)
(* them.                                                                   *)
(***************************************************************************)
ControllerStates == {"Idle", "Starting", "Running", "Stopping", "Stopped"}
StateOnDeleteRequested == "Stopping"
\* Variant: a decommission leaves the controller where its delete request put it.
StateAfterDecommissionStuck == "Stopping"
StateAfterDecommission == "Stopped"
StateOnSpecBuilt == "Starting"
StateOnCreated == "Running"
StateOnCreateError == "Stopped"

(***************************************************************************)
(* The decisions start_instance and stop_instance take.                    *)
(***************************************************************************)
\* stop_instance(self, fast=False, reportFailure=True)
StopDefaults == [fast |-> FALSE, reportFailure |-> TRUE]

\* Variant: the cleanup before the create does not wait for the deletion.
StartCleanupFast == [fast |-> TRUE, reportFailure |-> FALSE]

\* Variant: start_instance calls stop_instance with its defaults.
StartCleanupReporting == StopDefaults

\* start_instance: yield self.stop_instance(reportFailure=False)
StartCleanupArgs == [StopDefaults EXCEPT !.reportFailure = FALSE]

\* stop_instance: self.current_pod_spec = None
ClearedPodSpec(v) == None

\* Variant: the rendered properties survive the stop.
KeepWorkerProps(v) == v

\* stop_instance: self.resetWorkerPropsOnStop()
resetWorkerPropsOnStop(v) == None

\* Variants of the re-raise condition: always, whenever reporting is
\* demanded, never.
ShouldRaiseAlways(reportFailure, e) == TRUE
ShouldRaiseOnDemand(reportFailure, e) == reportFailure
ShouldRaiseNever(reportFailure, e) == FALSE

\* except KubeJsonError as e: if reportFailure and e.reason != 'NotFound': raise
ShouldRaise(reportFailure, e) == reportFailure /\ e.reason # "NotFound"

\* Variants of the early return: never taken, always taken.
SkipsWaitNever(fast) == FALSE
SkipsWaitAlways(fast) == TRUE

\* if fast: return
SkipsWait(fast) == fast

\* Variant: a swallowed deletePod error ends stop_instance at once.
StopAfterDeleteReturnsOnError(a, out) ==
    LET e == ExcOf(out) IN
    IF e = NoExc
    THEN IF a.fast THEN "return" ELSE "wait"
    ELSE IF ~IsKubeJsonError(e) \/ (a.reportFailure /\ e.reason # "NotFound")
         THEN "raise"
         ELSE "return"

\* What stop_instance does with deletePod's answer: "raise" it, "return",
\* or go on to "wait" for the deletion.
StopAfterDelete(a, out) ==
    LET e == ExcOf(out) IN
    IF e # NoExc /\ (~IsKubeJsonError(e) \/ ShouldRaise(a.reportFailure, e))
    THEN "raise"
    ELSE IF SkipsWait(a.fast) THEN "return" ELSE "wait"

\* Variant: the cluster error leaves start_instance as it is.
StartExceptRaw(e) == e

\* start_instance: except KubeError as e: raise LatentWorkerFailedToSubstantiate(str(e)) from e
\* Variant: the except clause catches every exception.
StartExceptWrapAll(e) == LatentWorkerFailedToSubstantiate(Str(e))

StartExcept(e) ==
    IF IsKubeError(e) THEN LatentWorkerFailedToSubstantiate(Str(e)) ELSE e

(***************************************************************************)
(* Frames.                                                                 *)
(***************************************************************************)
NoPrev == [op |-> "none", ok |-> FALSE, exc |-> "None"]

EmptyLog ==
    [nDelete |-> 0, nWait |-> 0, nCreate |-> 0,
     delOut |-> Unanswered, waitOut |-> Unanswered, createOut |-> Unanswered,
     call |-> NoCall, after |-> NoPrev]

IdleWorker(w) == \A f \in Frames : pc[w][f] = "idle"

\* A frame's step: where it stands next, its result, the controller state,
\* and whether the scheduler's call has completed.
Step(p, r, s, d) == [pc |-> p, result |-> r, state |-> s, done |-> d]

\* Variant: stop_instance swallows whatever its wait raises.
StopInstanceEndsQuietly(f, e) ==
    IF f = "stop"
    THEN Step("idle", Returned, StateAfterDecommission, TRUE)
    ELSE Step("render", Pending, StateAfterDecommission, FALSE)

\* stop_instance ends in frame f, raising e (NoExc: it returns).  In the
\* "start" frame start_instance goes on: to renderWorkerPropsOnStart, or to
\* its except clause.
StopInstanceEnds(f, e) ==
    IF f = "stop"
    THEN Step("idle", IF e = NoExc THEN Returned ELSE Raised(e),
              StateAfterDecommission, TRUE)
    ELSE IF e = NoExc
         THEN Step("render", Pending, StateAfterDecommission, FALSE)
         ELSE Step("idle", Raised(StartExcept(e)), StateAfterDecommission, TRUE)

Apply(w, f, n) ==
    /\ pc' = [pc EXCEPT ![w][f] = n.pc]
    /\ result' = [result EXCEPT ![w][f] = n.result]
    /\ state' = [state EXCEPT ![w] = n.state]
    /\ prev' = IF n.done
               THEN [prev EXCEPT ![w] = [op |-> f, ok |-> n.result.status = "returned",
                                          exc |-> n.result.exc.type]]
               ELSE prev

(***************************************************************************)
(* Initial state: the workers are configured, nothing runs, the cluster    *)
(* holds no workload.                                                      *)
(***************************************************************************)
InitWorkers ==
    /\ pc = [w \in Workers |-> [f \in Frames |-> "idle"]]
    /\ args = [w \in Workers |-> [f \in Frames |-> StopDefaults]]
    /\ build = [w \in Workers |-> "build"]
    /\ result = [w \in Workers |-> [f \in Frames |-> NoResult]]
    /\ pods = [w \in Workers |-> 0]
    /\ deleting = [w \in Workers |-> 0]
    /\ current_pod_spec = [w \in Workers |-> None]
    /\ props = [w \in Workers |-> None]
    /\ state = [w \in Workers |-> "Idle"]
    /\ log = [w \in Workers |-> [f \in Frames |-> EmptyLog]]
    /\ prev = [w \in Workers |-> NoPrev]
    /\ calls = 0
    /\ created = [w \in Workers |-> None]
    /\ cut = [w \in Workers |-> "no"]

Init ==
    /\ InitWorkers
    /\ podIn = [name |-> getContainerName("w1"), image |-> RenderedImage("w1", "build"),
                env |-> createEnvironment("w1", "build"),
                ext |-> DefaultExtensions("build")]
    /\ podOut = None

(***************************************************************************)
(* stop_instance, from its entry to the deletePod call it issues.  The     *)
(* scheduler serializes the calls of one worker: a call begins when no     *)
(* other call of that worker runs.  A frame that begins forgets the        *)
(* finished call of the other frame (prev keeps how it ended).             *)
(***************************************************************************)
StopInstanceEnter(w, f, a) ==
    /\ calls < MaxCalls
    /\ pc[w][f] = "idle"
    /\ calls' = calls + 1
    /\ args' = [args EXCEPT ![w] =
                   [g \in Frames |-> IF g = f THEN a
                                     ELSE IF pc[w][g] = "idle" THEN StopDefaults ELSE @[g]]]
    /\ current_pod_spec' = [current_pod_spec EXCEPT ![w] = ClearedPodSpec(@)]
    /\ props' = [props EXCEPT ![w] = resetWorkerPropsOnStop(@)]
    /\ pc' = [pc EXCEPT ![w][f] = "deletePod"]
    /\ result' = [result EXCEPT ![w] =
                     [g \in Frames |-> IF g = f THEN Pending
                                       ELSE IF pc[w][g] = "idle" THEN NoResult ELSE @[g]]]
    /\ log' = [log EXCEPT ![w] =
                  [g \in Frames |->
                      IF g = f
                      THEN [EmptyLog EXCEPT !.nDelete = 1, !.call = deletePodCall(w),
                                            !.after = prev[w]]
                      ELSE IF pc[w][g] = "idle" THEN EmptyLog ELSE @[g]]]
    /\ state' = [state EXCEPT ![w] = StateOnDeleteRequested]
    /\ UNCHANGED <<pods, deleting, prev, created>>

\* The scheduler calls stop_instance(fast, reportFailure).
BeginStop(w, fast, reportFailure) ==
    /\ IdleWorker(w)
    /\ StopInstanceEnter(w, "stop", [fast |-> fast, reportFailure |-> reportFailure])
    /\ cut' = [cut EXCEPT ![w] = IF @ = "created" THEN "after" ELSE "no"]
    /\ UNCHANGED build

\* The scheduler calls start_instance(build), which first calls stop_instance.
BeginStart(w, b) ==
    /\ IdleWorker(w)
    /\ StopInstanceEnter(w, "start", StartCleanupArgs)
    /\ cut' = [cut EXCEPT ![w] = "no"]
    /\ build' = [build EXCEPT ![w] = b]

\* The scheduler calls stop_instance(fast=True, reportFailure) while the
\* createPod of a running start_instance is in flight.
BeginFastStopDuringCreate(w, reportFailure) ==
    /\ pc[w]["start"] = "createPod"
    /\ StopInstanceEnter(w, "stop", [fast |-> TRUE, reportFailure |-> reportFailure])
    /\ cut' = [cut EXCEPT ![w] = "during"]
    /\ UNCHANGED build

(***************************************************************************)
(* deletePod answers; stop_instance raises, returns, or issues             *)
(* waitForPodDeletion.  An accepted delete marks the pods as terminating.  *)
(***************************************************************************)
\* Variant: a deletePod that failed is issued a second time.
DeleteReturnsRetry(w, f, out) ==
    /\ pc[w][f] = "deletePod"
    /\ out \in DeleteOutcomes(log[w][f].call)
    /\ deleting' = IF out = Ack
                   THEN [v \in Workers |-> IF v \in Targets(log[w][f].call)
                                           THEN pods[v] ELSE deleting[v]]
                   ELSE deleting
    /\ LET nxt == StopAfterDelete(args[w][f], out) IN
       IF out # Ack /\ log[w][f].nDelete < 2
       THEN /\ Apply(w, f, Step("deletePod", Pending, state[w], FALSE))
            /\ log' = [log EXCEPT ![w][f].delOut = out, ![w][f].nDelete = @ + 1]
       ELSE IF nxt = "wait"
       THEN /\ Apply(w, f, Step("waitForPodDeletion", Pending, state[w], FALSE))
            /\ log' = [log EXCEPT ![w][f].delOut = out,
                                  ![w][f].nWait = @ + 1,
                                  ![w][f].call = waitForPodDeletionCall(w)]
       ELSE /\ Apply(w, f, StopInstanceEnds(f, IF nxt = "raise" THEN ExcOf(out) ELSE NoExc))
            /\ log' = [log EXCEPT ![w][f].delOut = out, ![w][f].call = NoCall]
    /\ UNCHANGED <<args, build, pods, current_pod_spec, props, calls, created, cut>>

DeleteReturns(w, f, out) ==
    /\ pc[w][f] = "deletePod"
    /\ out \in DeleteOutcomes(log[w][f].call)
    /\ deleting' = IF out = Ack
                   THEN [v \in Workers |-> IF v \in Targets(log[w][f].call)
                                           THEN pods[v] ELSE deleting[v]]
                   ELSE deleting
    /\ LET nxt == StopAfterDelete(args[w][f], out) IN
       IF nxt = "wait"
       THEN /\ Apply(w, f, Step("waitForPodDeletion", Pending, state[w], FALSE))
            /\ log' = [log EXCEPT ![w][f].delOut = out,
                                  ![w][f].nWait = @ + 1,
                                  ![w][f].call = waitForPodDeletionCall(w)]
       ELSE /\ Apply(w, f, StopInstanceEnds(f, IF nxt = "raise" THEN ExcOf(out) ELSE NoExc))
            /\ log' = [log EXCEPT ![w][f].delOut = out, ![w][f].call = NoCall]
    /\ UNCHANGED <<args, build, pods, current_pod_spec, props, calls, created, cut>>

(***************************************************************************)
(* waitForPodDeletion answers: stop_instance returns, or the TimeoutError  *)
(* propagates.                                                             *)
(***************************************************************************)
WaitReturns(w, f, out) ==
    /\ pc[w][f] = "waitForPodDeletion"
    /\ out \in WaitOutcomes(log[w][f].call)
    /\ Apply(w, f, StopInstanceEnds(f, ExcOf(out)))
    /\ log' = [log EXCEPT ![w][f].waitOut = out, ![w][f].call = NoCall]
    /\ UNCHANGED <<args, build, pods, deleting, current_pod_spec, props, calls,
                   created, cut>>

(***************************************************************************)
(* renderWorkerPropsOnStart answers: the pod spec is kept and createPod is *)
(* issued, or the rendering error leaves start_instance.                   *)
(***************************************************************************)
RenderReturns(w) ==
    /\ pc[w]["start"] = "render"
    /\ IF Renderable(build[w])
       THEN LET pod_spec == renderWorkerProps(w, build[w]) IN
            /\ props' = [props EXCEPT ![w] = Some(pod_spec)]
            /\ Apply(w, "start", Step("createPod", Pending, StateOnSpecBuilt, FALSE))
            /\ log' = [log EXCEPT ![w]["start"].nCreate = @ + 1,
                                  ![w]["start"].call = createPodCall(w, pod_spec)]
       ELSE /\ Apply(w, "start",
                     Step("idle", Raised(StartExcept(RenderError)), state[w], TRUE))
            /\ UNCHANGED <<props, log>>
    /\ UNCHANGED <<args, build, pods, deleting, current_pod_spec, calls, created, cut>>

(***************************************************************************)
(* createPod answers: start_instance returns True, or wraps the error.     *)
(***************************************************************************)
CreateReturns(w, out) ==
    /\ pc[w]["start"] = "createPod"
    /\ out \in CreateOutcomes(log[w]["start"].call)
    /\ pods' = IF out = Ack
               THEN [v \in Workers |-> IF v \in Targets(log[w]["start"].call)
                                       THEN pods[v] + 1 ELSE pods[v]]
               ELSE pods
    /\ created' = IF out = Ack
                  THEN [created EXCEPT ![w] = Some(CallKey(log[w]["start"].call))]
                  ELSE created
    /\ Apply(w, "start",
             IF out = Ack
             THEN Step("idle", Returned, StateOnCreated, TRUE)
             ELSE Step("idle", Raised(StartExcept(ExcOf(out))), StateOnCreateError, TRUE))
    /\ log' = [log EXCEPT ![w]["start"].createOut = out, ![w]["start"].call = NoCall]
    /\ cut' = [cut EXCEPT ![w] = IF @ = "during"
                                 THEN (IF out = Ack THEN "created" ELSE "no")
                                 ELSE @]
    /\ UNCHANGED <<args, build, deleting, current_pod_spec, props, calls>>

(***************************************************************************)
(* The cluster finishes terminating the pods it accepted a delete for.     *)
(***************************************************************************)
ClusterReap(w) ==
    /\ deleting[w] > 0
    /\ pods' = [pods EXCEPT ![w] = @ - deleting[w]]
    /\ deleting' = [deleting EXCEPT ![w] = 0]
    /\ UNCHANGED <<pc, args, build, result, current_pod_spec, props, state, log,
                   prev, calls, created, cut>>

Next ==
    /\ UNCHANGED <<podIn, podOut>>
    /\ \E w \in Workers :
        \/ \E fast \in BOOLEAN, reportFailure \in BOOLEAN : BeginStop(w, fast, reportFailure)
        \/ \E b \in Builds : BeginStart(w, b)
        \/ \E f \in Frames : \E out \in DeleteOutcomes(log[w][f].call) : DeleteReturns(w, f, out)
        \/ \E f \in Frames : \E out \in WaitOutcomes(log[w][f].call) : WaitReturns(w, f, out)
        \/ RenderReturns(w)
        \/ \E out \in CreateOutcomes(log[w]["start"].call) : CreateReturns(w, out)
        \/ ClusterReap(w)

\* The scheduler serializes the calls of one worker.
Spec == Init /\ [][Next]_vars

\* A fast stop_instance may also arrive while createPod is in flight.
NextOverlap ==
    \/ Next
    \/ /\ UNCHANGED <<podIn, podOut>>
       /\ \E w \in Workers, reportFailure \in BOOLEAN :
              BeginFastStopDuringCreate(w, reportFailure)

SpecOverlap == Init /\ [][NextOverlap]_vars

(***************************************************************************)
(* getPodSpec on its own: one call, on any container name, rendered image, *)
(* environment of at most MaxEnv keys, and customization points that are   *)
(* the defaults or a subclass's (with up to MaxSidecars service            *)
(* containers).                                                            *)
(***************************************************************************)
Images == {"worker:latest", "buildbot/buildbot-worker"}
EnvKeys == {"X", "Y", "Z"}
EnvValues == {"1", "2"}
SidecarNames == {"db", "cache"}

SeqsUpTo(S, n) == UNION {[1..k -> S] : k \in 0..n}

\* A dict in insertion order: pairs with distinct keys.
EnvDicts ==
    {e \in SeqsUpTo(EnvKeys \X EnvValues, MaxEnv) :
        \A i, j \in 1..Len(e) : e[i][1] = e[j][1] => i = j}

Sidecar(n) == [name |-> n, image |-> n \o ":latest"]

OverriddenExtensions ==
    {[resources |-> [requests |-> "1cpu"],
      volumeMounts |-> <<[name |-> "src", mountPath |-> "/src"]>>,
      affinity |-> [nodeAffinity |-> "ssd"],
      nodeSelector |-> [disk |-> "ssd"],
      services |-> [i \in 1..Len(ns) |-> Sidecar(ns[i])],
      volumes |-> <<[name |-> "src"]>>] : ns \in SeqsUpTo(SidecarNames, MaxSidecars)}

PodInputs ==
    [name : {getContainerName(w) : w \in Workers},
     image : Images,
     env : EnvDicts,
     ext : {DefaultExtensions("build")} \cup OverriddenExtensions]

InitPod ==
    /\ InitWorkers
    /\ podIn \in PodInputs
    /\ podOut = None

CallGetPodSpec ==
    /\ podOut = None
    /\ podOut' = Some(PodSpec(podIn.name, podIn.image, podIn.env, podIn.ext))
    /\ UNCHANGED <<pc, args, build, result, pods, deleting, current_pod_spec, props,
                   state, log, prev, calls, created, cut, podIn>>

NextPod == CallGetPodSpec

SpecPod == InitPod /\ [][NextPod]_vars

(***************************************************************************)
(* Vocabulary of the properties.                                           *)
(***************************************************************************)
NotFound == KubeJsonError("NotFound")

\* The scheduler's stop_instance call of w has completed / is under way.
StopDone(w) == pc[w]["stop"] = "idle" /\ result[w]["stop"].status \in {"returned", "raised"}
StopArgs(w) == args[w]["stop"]
StopLog(w) == log[w]["stop"]
StartLog(w) == log[w]["start"]
StartDone(w) == pc[w]["start"] = "idle" /\ result[w]["start"].status \in {"returned", "raised"}

AfterStartOk == [op |-> "start", ok |-> TRUE, exc |-> "None"]
AfterStopTimeout == [op |-> "stop", ok |-> FALSE, exc |-> "TimeoutError"]

\* deletePod failed with a reason other than NotFound
DeleteFailedOther(l) == IsKubeJsonError(l.delOut) /\ l.delOut.reason # "NotFound"

\* C1: every start_instance has had its deletePod answered before it issues
\* createPod, and the cluster never holds more than one workload of a worker.
C1_RemoveBeforeCreate ==
    \A w \in Workers :
        /\ pods[w] <= 1
        /\ StartLog(w).nCreate > 0 =>
               StartLog(w).nDelete > 0 /\ StartLog(w).delOut # Unanswered

\* A second start_instance right after a successful one has succeeded too.
C1_Witness ==
    \E w \in Workers :
        /\ StartDone(w) /\ result[w]["start"] = Returned
        /\ StartLog(w).after = AfterStartOk
        /\ pods[w] = 1

\* C2: when createPod answers with an error, start_instance raises
\* LatentWorkerFailedToSubstantiate carrying that error's message, and the
\* controller state is Stopped.
C2_CreateErrorWrapped ==
    \A w \in Workers :
        StartLog(w).createOut \notin {Unanswered, Ack} =>
            /\ StartDone(w)
            /\ result[w]["start"].status = "raised"
            /\ result[w]["start"].exc.type = "LatentWorkerFailedToSubstantiate"
            /\ result[w]["start"].exc.msg = Str(StartLog(w).createOut)
            /\ state[w] = "Stopped"

C2_Witness ==
    \E w \in Workers :
        /\ StartLog(w).createOut = KubeJsonError("Forbidden")
        /\ result[w]["start"] = Raised(LatentWorkerFailedToSubstantiate("pods is forbidden"))

\* C3: stop_instance(reportFailure=False) whose deletePod answers NotFound
\* does not raise, and has returned once it completes.
C3_NotFoundSuppressed ==
    \A w \in Workers :
        (~StopArgs(w).reportFailure /\ StopLog(w).delOut = NotFound) =>
            /\ result[w]["stop"].status # "raised"
            /\ StopDone(w) => result[w]["stop"] = Returned

C3_Witness ==
    \E w \in Workers, fast \in BOOLEAN :
        /\ StopDone(w) /\ result[w]["stop"] = Returned
        /\ StopArgs(w) = [fast |-> fast, reportFailure |-> FALSE]
        /\ StopLog(w).delOut = NotFound

\* C4 as claimed: stop_instance(fast=False, reportFailure=True) whose
\* deletePod answers NotFound returns without calling waitForPodDeletion.
C4_Claimed ==
    \A w \in Workers :
        (StopArgs(w) = StopDefaults /\ StopLog(w).delOut = NotFound) =>
            /\ StopLog(w).nWait = 0
            /\ StopDone(w) /\ result[w]["stop"] = Returned

\* C4, amended: stop_instance(fast=False, reportFailure=True) whose deletePod
\* answers NotFound swallows the error and calls waitForPodDeletion exactly
\* once; it returns once that wait confirms.
C4_NotFoundThenWait ==
    \A w \in Workers :
        (StopArgs(w) = StopDefaults /\ StopLog(w).delOut = NotFound) =>
            /\ StopLog(w).nWait = 1
            /\ pc[w]["stop"] = "waitForPodDeletion" \/ StopDone(w)
            /\ StopLog(w).waitOut = Ack => StopDone(w) /\ result[w]["stop"] = Returned
            /\ result[w]["stop"].exc # NotFound

C4_Witness ==
    \E w \in Workers :
        /\ StopArgs(w) = StopDefaults /\ StopLog(w).delOut = NotFound
        /\ StopLog(w).nWait = 1 /\ StopLog(w).waitOut = Ack
        /\ result[w]["stop"] = Returned

\* C5 as claimed: stop_instance(reportFailure=True) whose deletePod answers
\* NotFound raises that error to its caller.
C5_Claimed ==
    \A w \in Workers :
        (StopArgs(w).reportFailure /\ StopLog(w).delOut = NotFound /\ StopDone(w)) =>
            result[w]["stop"] = Raised(NotFound)

\* C5, amended: NotFound is treated as success whatever reportFailure is:
\* stop_instance(reportFailure=True) whose deletePod answers NotFound never
\* raises it, for either value of fast.
C5_NotFoundNeverSurfaced ==
    \A w \in Workers :
        (StopArgs(w).reportFailure /\ StopLog(w).delOut = NotFound) =>
            /\ result[w]["stop"].exc.type # "KubeJsonError"
            /\ StopArgs(w).fast => StopDone(w) /\ result[w]["stop"] = Returned

C5_Witness ==
    \E w \in Workers :
        /\ StopArgs(w) = [fast |-> TRUE, reportFailure |-> TRUE]
        /\ StopLog(w).delOut = NotFound
        /\ StopDone(w) /\ result[w]["stop"] = Returned

\* C6 as claimed: whenever deletePod fails with a reason other than NotFound,
\* stop_instance raises that error and does not call waitForPodDeletion.
C6_Claimed ==
    \A w \in Workers :
        DeleteFailedOther(StopLog(w)) =>
            /\ StopLog(w).nWait = 0
            /\ StopDone(w) /\ result[w]["stop"] = Raised(StopLog(w).delOut)

\* C6, amended: when deletePod fails with a reason other than NotFound,
\* stop_instance(reportFailure=True) raises that error and does not call
\* waitForPodDeletion (for both values of fast); stop_instance(reportFailure=
\* False) suppresses it and goes on as after an accepted delete.
C6_OtherErrorPerReportFailure ==
    \A w \in Workers :
        DeleteFailedOther(StopLog(w)) =>
            IF StopArgs(w).reportFailure
            THEN /\ StopLog(w).nWait = 0
                 /\ StopDone(w) /\ result[w]["stop"] = Raised(StopLog(w).delOut)
            ELSE /\ result[w]["stop"].exc # StopLog(w).delOut
                 /\ StopLog(w).nWait = (IF StopArgs(w).fast THEN 0 ELSE 1)

C6_Witness ==
    \E w \in Workers, v \in Workers :
        /\ DeleteFailedOther(StopLog(w)) /\ StopArgs(w).reportFailure
        /\ result[w]["stop"] = Raised(KubeJsonError("Forbidden"))
        /\ DeleteFailedOther(StopLog(v)) /\ ~StopArgs(v).reportFailure
        /\ StopLog(v).nWait = 1

\* The scheduler may call start_instance for w: no call of w is running and
\* the controller is in a state substantiate starts from.
SubstantiatePermitted(w) ==
    /\ IdleWorker(w)
    /\ state[w] \in {"Idle", "Stopped"}
    /\ calls < MaxCalls => ENABLED BeginStart(w, "build")

\* C7: stop_instance(fast=True) ends when deletePod has answered and never
\* calls waitForPodDeletion; stop_instance(fast=False) whose deletePod was
\* accepted calls waitForPodDeletion exactly once, after deletePod has
\* answered, with timeout=missing_timeout, and completes only with that
\* call's answer: returning when confirmed, raising TimeoutError otherwise.
C7_FastSkipsWaitSlowWaitsOnce ==
    \A w \in Workers :
        LET l == StopLog(w) a == StopArgs(w) IN
        /\ l.nWait > 0 => l.delOut # Unanswered
        /\ (a.fast /\ l.nDelete > 0) =>
               /\ l.nWait = 0
               /\ l.delOut # Unanswered => StopDone(w)
        /\ (~a.fast /\ l.delOut = Ack) =>
               /\ l.nWait = 1 /\ l.nDelete = 1
               /\ IF l.waitOut = Unanswered
                  THEN /\ pc[w]["stop"] = "waitForPodDeletion"
                       /\ l.call.op = "waitForPodDeletion"
                       /\ l.call.timeout = missing_timeout(w)
                  ELSE /\ StopDone(w)
                       /\ result[w]["stop"] =
                              (IF l.waitOut = Ack THEN Returned ELSE Raised(TimeoutError))

\* One worker's fast stop has ended on deletePod's answer; another's slow
\* stop, after a successful start, has had its one wait confirmed.
C7_Witness ==
    \E w \in Workers, v \in Workers :
        /\ StopDone(w) /\ StopArgs(w).fast /\ StopLog(w).delOut # Unanswered
        /\ StopLog(w).nWait = 0
        /\ StopDone(v) /\ ~StopArgs(v).fast /\ StopLog(v).delOut = Ack
        /\ StopLog(v).nWait = 1 /\ StopLog(v).waitOut = Ack

\* C8: when waitForPodDeletion times out, stop_instance(fast=False) raises
\* TimeoutError, and a start_instance of the same worker is permitted
\* afterwards.
C8_TimeoutThenStartPermitted ==
    \A w \in Workers :
        StopLog(w).waitOut = TimeoutError =>
            /\ StopDone(w)
            /\ result[w]["stop"] = Raised(TimeoutError)
            /\ SubstantiatePermitted(w)

\* A start_instance begun right after a timed-out stop_instance has succeeded.
C8_Witness ==
    \E w \in Workers :
        /\ StartLog(w).after = AfterStopTimeout
        /\ StartDone(w) /\ result[w]["start"] = Returned

\* C9 as claimed: a stop_instance(fast=False) called right after a successful
\* start_instance leaves, whenever it completes, the controller Stopped and
\* no workload of the worker in the cluster.
C9_Claimed ==
    \A w \in Workers :
        (StopDone(w) /\ ~StopArgs(w).fast /\ StopLog(w).after = AfterStartOk) =>
            state[w] = "Stopped" /\ pods[w] = 0

\* C9, amended: a stop_instance(fast=False) called right after a successful
\* start_instance leaves the controller Stopped however it completes, and
\* leaves no workload of the worker in the cluster when it returns
\* successfully (a reported delete error or a wait timeout may leave it).
C9_StartThenStopRemoves ==
    \A w \in Workers :
        (StopDone(w) /\ ~StopArgs(w).fast /\ StopLog(w).after = AfterStartOk) =>
            /\ state[w] = "Stopped"
            /\ result[w]["stop"] = Returned => pods[w] = 0

C9_Witness ==
    \E w \in Workers :
        /\ StopDone(w) /\ StopArgs(w) = StopDefaults
        /\ StopLog(w).after = AfterStartOk
        /\ result[w]["stop"] = Returned /\ pods[w] = 0 /\ state[w] = "Stopped"

\* C10: stop_instance empties the cached pod spec and the rendered worker
\* properties before its first cluster call, and they are empty while it
\* runs and when it completes, however it completes.
C10_CacheClearedOnStop ==
    \A w \in Workers :
        /\ (\E f \in Frames : pc[w][f] \in {"deletePod", "waitForPodDeletion"}) =>
               current_pod_spec[w] = None /\ props[w] = None
        /\ result[w]["stop"].status # "none" =>
               current_pod_spec[w] = None /\ props[w] = None

\* A stop_instance that found rendered properties of a successful start has
\* failed on the wait's timeout, with the properties gone.
C10_Witness ==
    \E w \in Workers :
        /\ StopDone(w) /\ StopLog(w).after = AfterStartOk
        /\ result[w]["stop"] = Raised(TimeoutError)
        /\ props[w] = None

\* C11: however the scheduler's stop_instance completes (returning or
\* raising), the controller is then Stopped, never Stopping, Starting or
\* Running, and a start_instance of the worker is permitted.
C11_DecommissionEndsStopped ==
    \A w \in Workers :
        StopDone(w) =>
            /\ state[w] = "Stopped"
            /\ SubstantiatePermitted(w)

\* A stop_instance called on a running worker has failed on a reported
\* delete error and left the controller Stopped.
C11_Witness ==
    \E w \in Workers :
        /\ StopDone(w) /\ StopLog(w).after = AfterStartOk
        /\ result[w]["stop"] = Raised(KubeJsonError("Forbidden"))
        /\ state[w] = "Stopped"

\* A cluster call of the start_instance of w was answered with an error.
StartClusterErrors(w) ==
    {o \in {StartLog(w).delOut, StartLog(w).waitOut, StartLog(w).createOut} :
        o \notin {Unanswered, Ack}}

\* C12 as claimed: a start_instance that fails on the error of one of its
\* cluster calls (the removal before the create, its wait for the deletion,
\* the create) raises LatentWorkerFailedToSubstantiate, never the raw
\* cluster or timeout error.
C12_Claimed ==
    \A w \in Workers :
        (StartDone(w) /\ result[w]["start"].status = "raised"
                      /\ result[w]["start"].exc.type # "RenderError"
                      /\ StartClusterErrors(w) # {}) =>
            result[w]["start"].exc.type = "LatentWorkerFailedToSubstantiate"

StepOf(w) == pc'[w] # pc[w] \/ log'[w] # log[w]

\* C14: a step of one worker's start_instance or stop_instance leaves every
\* other worker's controller state, cached spec and properties, calls and
\* cluster workload unchanged.
C14_WorkersIndependent ==
    [][\A w \in Workers :
          StepOf(w) =>
              \A v \in Workers \ {w} :
                  /\ state'[v] = state[v]
                  /\ props'[v] = props[v]
                  /\ current_pod_spec'[v] = current_pod_spec[v]
                  /\ pods'[v] = pods[v]
                  /\ deleting'[v] = deleting[v]
                  /\ created'[v] = created[v]
                  /\ pc'[v] = pc[v]
                  /\ result'[v] = result[v]]_vars

\* Both workers are in the middle of a call, one of them with a pod in the
\* cluster and rendered properties.
C14_Witness ==
    /\ pc["w1"]["start"] = "createPod" /\ props["w1"] # None
    /\ pc["w2"]["stop"] = "waitForPodDeletion" /\ pods["w2"] = 1 /\ deleting["w2"] = 1

\* C15: the pod spec getPodSpec returns has the primary container first and
\* only once, with the rendered image and one env entry (name, value) per
\* key of the environment; restartPolicy is "Never"; the service containers
\* follow the primary one in their order; with the default customization
\* points there is one container and resources, volume mounts, affinity,
\* node selector and volumes are empty.
C15_PodSpecShape ==
    podOut # None =>
        LET p == podOut[1]
            cs == p.spec.containers
            sv == podIn.ext.services
        IN  /\ Len(cs) = 1 + Len(sv)
            /\ cs[1].name = podIn.name /\ p.metadata.name = podIn.name
            /\ Cardinality({i \in 1..Len(cs) : cs[i].name = podIn.name}) = 1
            /\ cs[1].image = podIn.image
            /\ Len(cs[1].env) = Len(podIn.env)
            /\ \A i \in 1..Len(podIn.env) :
                   /\ cs[1].env[i] = [name |-> podIn.env[i][1], value |-> podIn.env[i][2]]
                   /\ Cardinality({j \in 1..Len(cs[1].env) :
                                      cs[1].env[j].name = podIn.env[i][1]}) = 1
            /\ p.spec.restartPolicy = "Never"
            /\ \A j \in 1..Len(sv) : cs[1 + j] = sv[j]
            /\ podIn.ext = DefaultExtensions("build") =>
                   /\ Len(cs) = 1
                   /\ cs[1].resources = EmptyDict /\ cs[1].volumeMounts = EmptyList
                   /\ p.spec.affinity = EmptyDict /\ p.spec.nodeSelector = EmptyDict
                   /\ p.spec.volumes = EmptyList

\* The scenario image "worker:latest", env {"X": "1"}, default customization
\* points; and a subclass's spec with two env keys and two service containers.
C15_Witness ==
    /\ podOut # None
    /\ \/ /\ podIn.image = "worker:latest" /\ podIn.env = << <<"X", "1">> >>
          /\ podIn.ext = DefaultExtensions("build")
          /\ Len(podOut[1].spec.containers) = 1
          /\ podOut[1].spec.containers[1].env = <<[name |-> "X", value |-> "1"]>>
       \/ /\ Len(podIn.env) = 2 /\ Len(podIn.ext.services) = 2
          /\ Len(podOut[1].spec.containers) = 3

\* C16 as claimed: a start_instance whose deletePod answered with an error
\* goes on to createPod whenever the build renders.
C16_Claimed ==
    \A w \in Workers :
        (IsKubeJsonError(StartLog(w).delOut) /\ StartDone(w) /\ Renderable(build[w])) =>
            StartLog(w).nCreate = 1

\* C16, amended: a deletePod error of start_instance's own stop_instance, of
\* any reason, is swallowed and waitForPodDeletion is called; when that wait
\* confirms, start_instance renders and issues createPod; start_instance
\* fails only by a later step: the wait's timeout, the rendering, or
\* createPod's own error.
C16_DeleteErrorSuppressedThenWait ==
    \A w \in Workers :
        IsKubeJsonError(StartLog(w).delOut) =>
            /\ StartLog(w).nWait = 1
            /\ StartLog(w).waitOut = Unanswered => pc[w]["start"] = "waitForPodDeletion"
            /\ (StartLog(w).waitOut = Ack /\ Renderable(build[w])) =>
                   pc[w]["start"] = "render" \/ StartLog(w).nCreate = 1
            /\ result[w]["start"].status = "raised" =>
                   \/ /\ StartLog(w).waitOut = TimeoutError
                      /\ result[w]["start"].exc = TimeoutError
                      /\ StartLog(w).nCreate = 0
                   \/ /\ ~Renderable(build[w])
                      /\ result[w]["start"].exc = RenderError
                   \/ /\ IsKubeJsonError(StartLog(w).createOut)
                      /\ result[w]["start"].exc =
                             LatentWorkerFailedToSubstantiate(Str(StartLog(w).createOut))

\* One start_instance meets Forbidden, finds no pod and creates; another
\* meets Forbidden with its pod still present and ends on the timeout.
C16_Witness ==
    \E w, v \in Workers :
        /\ DeleteFailedOther(StartLog(w)) /\ StartLog(w).waitOut = Ack
        /\ StartLog(w).createOut = Ack /\ result[w]["start"] = Returned
        /\ DeleteFailedOther(StartLog(v)) /\ StartLog(v).waitOut = TimeoutError
        /\ StartDone(v) /\ StartLog(v).nCreate = 0

\* C17: when the rendering of a start_instance fails, start_instance ends
\* raising that RenderError itself and has issued no createPod; a createPod
\* is only ever issued for a build that rendered.
C17_RenderErrorPropagates ==
    \A w \in Workers :
        /\ (StartLog(w).waitOut = Ack /\ ~Renderable(build[w])
              /\ pc[w]["start"] # "render") =>
               /\ StartDone(w)
               /\ result[w]["start"] = Raised(RenderError)
               /\ StartLog(w).nCreate = 0
               /\ prev[w] = [op |-> "start", ok |-> FALSE, exc |-> "RenderError"]
        /\ StartLog(w).nCreate > 0 => Renderable(build[w])

C17_Witness ==
    \E w \in Workers :
        /\ ~Renderable(build[w]) /\ StartLog(w).waitOut = Ack
        /\ StartDone(w) /\ result[w]["start"] = Raised(RenderError)
        /\ StartLog(w).nCreate = 0

\* A call of frame f of worker w has begun (it runs or has ended).
Begun(w, f) == pc[w][f] # "idle" \/ result[w][f].status \in {"returned", "raised"}

\* C18: no call is repeated: a start_instance has issued createPod at most
\* once, and every stop_instance (the scheduler's, or the one start_instance
\* runs first) has issued deletePod exactly once and waitForPodDeletion at
\* most once, whatever the cluster answered.
C18_NoRetries ==
    \A w \in Workers, f \in Frames :
        /\ log[w][f].nCreate <= 1
        /\ log[w][f].nWait <= 1
        /\ Begun(w, f) => log[w][f].nDelete = 1
        /\ (f = "stop" \/ ~Begun(w, f)) => log[w][f].nCreate = 0

\* A start_instance ended on createPod's error, and a stop_instance ended on
\* the timeout of its wait, each call issued once.
C18_Witness ==
    \E w, v \in Workers :
        /\ StartDone(w) /\ IsKubeJsonError(StartLog(w).createOut)
        /\ StartLog(w).nCreate = 1
        /\ StopDone(v) /\ StopLog(v).waitOut = TimeoutError
        /\ StopLog(v).nDelete = 1 /\ StopLog(v).nWait = 1

\* C19: a start_instance issues createPod only after the waitForPodDeletion
\* of its own stop_instance (called with fast=False) has confirmed; when
\* that wait times out, start_instance has ended raising and no createPod
\* was issued.
C19_CreateOnlyAfterConfirmedWait ==
    \A w \in Workers :
        /\ pc[w]["start"] # "idle" => ~args[w]["start"].fast
        /\ (StartLog(w).nCreate > 0 \/ pc[w]["start"] \in {"render", "createPod"}) =>
               StartLog(w).nWait = 1 /\ StartLog(w).waitOut = Ack
        /\ StartLog(w).waitOut = TimeoutError =>
               /\ StartDone(w) /\ result[w]["start"].status = "raised"
               /\ StartLog(w).nCreate = 0

\* One start_instance issued createPod after its wait confirmed; another,
\* whose pod stayed in the cluster, ended on the wait's timeout.
C19_Witness ==
    \E w, v \in Workers :
        /\ StartLog(w).nWait = 1 /\ StartLog(w).waitOut = Ack
        /\ StartLog(w).nCreate = 1
        /\ StartLog(v).waitOut = TimeoutError /\ StartDone(v)
        /\ StartLog(v).nCreate = 0

\* C20: every cluster call of a worker carries the worker's namespace and
\* container name; the rendered pod spec's metadata name is its first
\* container's name and that same name; hence createPod, deletePod and
\* waitForPodDeletion address one pod, and a stop_instance addresses the
\* pod the last accepted createPod made.
C20_OneNameOneNamespace ==
    \A w \in Workers :
        /\ \A f \in Frames :
               pc[w][f] \in {"deletePod", "waitForPodDeletion", "createPod"} =>
                   /\ log[w][f].call.op = pc[w][f]
                   /\ CallKey(log[w][f].call) = <<Namespace(w), getContainerName(w)>>
                   /\ created[w] # None => CallKey(log[w][f].call) = created[w][1]
        /\ props[w] # None =>
               /\ props[w][1].metadata.name = props[w][1].spec.containers[1].name
               /\ props[w][1].metadata.name = getContainerName(w)

\* A stop_instance is deleting, by namespace and name, the pod the worker's
\* start_instance created.
C20_Witness ==
    \E w \in Workers :
        /\ created[w] # None /\ pods[w] > 0
        /\ pc[w]["stop"] = "waitForPodDeletion"
        /\ StopLog(w).delOut = Ack
        /\ CallKey(StopLog(w).call) = created[w][1]

====
